---- MODULE Spec2Model ----
(***************************************************************************)
(* MemTask: the bounded, time-expiring cache (LRUCache in src/utils.ts,    *)
(* wrapped by CacheService in src/cache.ts), the TaskManager of            *)
(* src/task.ts with its own SimpleCache and JSON-file store, sequential,   *)
(* on a failing file system and with two updates in flight, and the task   *)
(* dependency views (getExecutableTasks, getTasksInOrder) the server calls.*)
(***************************************************************************)
EXTENDS Integers, Sequences, FiniteSets, TLC

(***************************************************************************)
(* Bounds of the model                                                     *)
(***************************************************************************)
\* capacity of the LRUCache under test (CacheConfig.maxSize)
MaxSize == 2
\* time-to-live of an entry in clock ticks (CacheConfig.ttlMs)
Ttl == 1
\* the clock Date.now() runs over 0..MaxTime
MaxTime == 2
\* at most MaxCalls get/has calls are made on the cache
MaxCalls == 2

\* capacity of the TaskManager's SimpleCache (maxCacheSize)
TaskCacheSize == 1
\* at most MaxNotes progress notes are added to a task
MaxNotes == 2
\* at most MaxLoads calls of TaskManager.load are made
MaxLoads == 2
\* a task of the snapshot names at most MaxDeps tasks in depends_on
MaxDeps == 2
\* the loads counted when a listing of the stored tasks starts are fewer
\* than MaxListLoads
MaxListLoads == 3
\* the loads the TaskManager of the web-viewer has counted when a request
\* starts are fewer than MaxViews
MaxViews == 3
\* the dashboard page creates at most MaxSockets WebSockets
MaxSockets == 3
\* at most MaxPending initViewer calls await their fetches at once
MaxPending == 1
\* setInterval is called at most MaxIntervals times
MaxIntervals == 2
\* files of the watched subdirectory are written at most MaxWrites times
MaxWrites == 2
\* the polling watcher scans at most MaxScans times
MaxScans == 3
\* how long before the TaskManager was constructed a stored task was updated
MaxAge == 2

Keys == {"a", "b", "c", "d"}
Vals == {"v1", "v2"}
\* the keys used on the cache of capacity MaxSize
FewKeys == {"a", "b", "c"}
\* the set calls made: key "a" is set to either value, the other keys to "v1"
SetInputs == {kv \in Keys \X Vals : kv[1] = "a" \/ kv[2] = "v1"}
\* the set calls made on the cache of capacity MaxSize
FewInputs == {kv \in SetInputs : kv[1] \in FewKeys}
\* the capacity of the cache on which the eviction order is observed: the
\* Map order and the order of use can differ once three keys fit
LruSize == MaxSize + 1

\* the JavaScript value undefined, returned by Map.get / LRUCache.get
Undefined == "undefined"
\* no value: the result of a call that returns nothing
None == "none"
\* a boolean return value as it is recorded in last
BoolStr(b) == IF b THEN "true" ELSE "false"
\* no set of the key is on record
NoSet == [at |-> -1, value |-> None]

VARIABLES
  maxSize,  \* LRUCache.maxSize, set by the constructor
  cache,    \* LRUCache.cache: the Map's entries in insertion order, oldest first
  stats,    \* LRUCache.stats: [hits, misses]
  now,      \* the value Date.now() returns
  last,     \* the cache call made last: its key, its return value and the
            \* keys it removed from the map
  calls,    \* number of get and has calls made so far
  recency,  \* keys of the cache ordered by their most recent touch, oldest first
  lastSet,  \* per key: time and value of its latest set, NoSet once removed
  snap      \* the object the latest getStats call returned, if any

cacheVars == <<maxSize, cache, stats, now, last, calls, recency, lastSet, snap>>

VARIABLES
  disk,     \* the storage directory: per task id the document of <id>.json
  tcache,   \* TaskManager.cache: the SimpleCache's Map, oldest entry first
  tstats,   \* SimpleCache.stats
  tlast,    \* the TaskManager call made last: its arguments and its outcome
  tio,      \* the fs calls that call made and the task it returned, if any
  ioError   \* Ok, or the error every fs call raises at present

taskVars == <<disk, tcache, tstats, tlast, tio, ioError>>

VARIABLES
  allTasks,      \* the snapshot of all tasks handed to the dependency views
  executable,    \* the list getExecutableTasks returned
  tasksInOrder,  \* the list getTasksInOrder has built so far
  epc            \* "start" before the views are computed, "done" once
                 \* getExecutableTasks returned, "ordering" inside the loop
                 \* of getTasksInOrder, "ordered" once it returned

execVars == <<allTasks, executable, tasksInOrder, epc>>

VARIABLES
  procs  \* the updateTask calls in flight at once: per caller its position
         \* (pc), its arguments, the task object it holds (held), whether
         \* that object is the one the cache holds (shared) and the text
         \* handed to writeFile (doc)

raceVars == <<procs>>

VARIABLES
  viewer  \* the TaskManager of the web-viewer process: its own cache and
          \* statistics over the storage directory of the server, and its
          \* last request (op, id) with the task or the tasks it answered

viewVars == <<viewer>>

VARIABLES
  tool,     \* the tool call the MCP server handled last: the request, what
            \* the manager call did, and the response of the handler
  client,   \* the dashboard page: its WebSockets and their readyState, the
            \* socket ws refers to, reconnectInterval, the interval timers
            \* that exist and the initViewer calls awaiting their fetches
  watcher   \* the polling watcher of the web-viewer: the files of the
            \* watched subdirectory, lastScan and the broadcasts made

\* the collaborators beside the managers
sideVars == <<tool, client, watcher>>

VARIABLES
  listing  \* the listTasks call made last: its filters, whether it returned
           \* or threw, and the list it returned

listVars == <<listing>>

vars == <<cacheVars, taskVars, execVars, raceVars, viewVars, sideVars, listVars>>
\* what a call on the cache, on the TaskManager, on the views leaves alone
notCacheVars == <<taskVars, execVars, raceVars, viewVars, sideVars, listVars>>
notTaskVars == <<cacheVars, execVars, raceVars, viewVars, sideVars, listVars>>
notExecVars == <<cacheVars, taskVars, raceVars, viewVars, sideVars, listVars>>
\* what a step of an updateTask call in flight leaves alone
notRaceVars ==
  <<cacheVars, execVars, viewVars, sideVars, listVars, tlast, tio, ioError>>
\* what a request to the web-viewer leaves alone
notViewVars == <<cacheVars, taskVars, execVars, raceVars, sideVars, listVars>>
\* what a tool call, an event of the dashboard or a scan leaves alone
notSideVars == <<cacheVars, taskVars, execVars, raceVars, viewVars, listVars>>

(***************************************************************************)
(* Sequence helpers                                                        *)
(***************************************************************************)
Range(s) == {s[i] : i \in 1..Len(s)}

\* s without its occurrences of k
RECURSIVE Without(_, _)
Without(s, k) ==
  IF s = <<>> THEN <<>>
  ELSE IF Head(s) = k THEN Without(Tail(s), k)
       ELSE <<Head(s)>> \o Without(Tail(s), k)

(***************************************************************************)
(* The Map<K, {value, expiry}> of LRUCache                                 *)
(***************************************************************************)
KeysOf(c) == {c[i].key : i \in 1..Len(c)}

\* Map.has(key)
MapHas(c, k) == k \in KeysOf(c)

\* Map.get(key): the entry stored under key (only used when MapHas)
MapGet(c, k) == LET i == CHOOSE j \in 1..Len(c) : c[j].key = k IN c[i]

\* Map.delete(key): the other entries keep their order
RECURSIVE MapDelete(_, _)
MapDelete(c, k) ==
  IF c = <<>> THEN <<>>
  ELSE IF Head(c).key = k THEN Tail(c)
       ELSE <<Head(c)>> \o MapDelete(Tail(c), k)

\* Map.set(key, entry): an existing key keeps its position in the iteration
\* order and only its entry is replaced; a new key is appended
MapSet(c, e) ==
  IF MapHas(c, e.key)
  THEN [i \in 1..Len(c) |-> IF c[i].key = e.key THEN e ELSE c[i]]
  ELSE Append(c, e)

\* a get that forgets to count the miss
CountMissDropped(st) == st

\* this.stats.misses++ and this.stats.hits++
CountMiss(st) == [st EXCEPT !.misses = @ + 1]
CountHit(st) == [st EXCEPT !.hits = @ + 1]

\* LRUCache.size()
LRUSize(c) == Len(c)

\* an expiry test that is off by one tick
ExpiredAtExpiry(item, t) == item.expiry <= t

\* the test "item.expiry < now" of LRUCache.get
Expired(item, t) == item.expiry < t

\* a get that first drops every entry whose expiry has passed
LRUGetSweeps(c, st, k, t) ==
  LET live == SelectSeq(c, LAMBDA e : ~Expired(e, t)) IN
  IF ~MapHas(live, k)
  THEN [cache |-> live, stats |-> CountMiss(st), value |-> Undefined]
  ELSE [cache |-> MapSet(MapDelete(live, k), MapGet(live, k)),
        stats |-> CountHit(st),
        value |-> MapGet(live, k).value]

\* LRUCache.get(key) at time t: the map, the counters and the value returned
LRUGet(c, st, k, t) ==
  IF ~MapHas(c, k)
  THEN [cache |-> c, stats |-> CountMiss(st), value |-> Undefined]
  ELSE LET item == MapGet(c, k) IN
       IF Expired(item, t)
       THEN [cache |-> MapDelete(c, k),
             stats |-> CountMiss(st),
             value |-> Undefined]
       ELSE [cache |-> MapSet(MapDelete(c, k), item),
             stats |-> CountHit(st),
             value |-> item.value]

\* a capacity test that lets one entry too many in
IsFullLate(c, max) == Len(c) > max

\* the test "this.cache.size >= this.maxSize" of LRUCache.set
IsFull(c, max) == Len(c) >= max

\* a set that leaves the expiry of a key that has an entry as it was
LRUSetKeepsExpiry(c, k, v, t, max, ttl) ==
  LET evicted == IF IsFull(c, max) /\ c # <<>> THEN Tail(c) ELSE c
      expiry == IF MapHas(c, k) THEN MapGet(c, k).expiry ELSE t + ttl
  IN  MapSet(evicted, [key |-> k, value |-> v, expiry |-> expiry])

\* LRUCache.set(key, value) at time t
LRUSet(c, k, v, t, max, ttl) ==
  LET evicted == IF IsFull(c, max) /\ c # <<>> THEN Tail(c) ELSE c
  IN  MapSet(evicted, [key |-> k, value |-> v, expiry |-> t + ttl])

\* LRUCache.delete(key)
LRUDelete(c, k) == MapDelete(c, k)

\* a getStats that hands out the counters object itself
GetStatsShared(st) == [hits |-> st.hits, misses |-> st.misses, shared |-> TRUE]

\* LRUCache.getStats(): { ...this.stats }, an object of its own
GetStats(st) == [hits |-> st.hits, misses |-> st.misses, shared |-> FALSE]

\* LRUCache.clear()
LRUClear(c) == <<>>

\* a has that asks the map only: no expiry, no counters, no touch
ServiceHasPeek(c, st, k, t) == [cache |-> c, stats |-> st, value |-> MapHas(c, k)]

\* CacheService.has(key): this.cache.get(key) !== undefined
ServiceHas(c, st, k, t) ==
  LET g == LRUGet(c, st, k, t)
  IN  [cache |-> g.cache, stats |-> g.stats, value |-> (g.value # Undefined)]

(***************************************************************************)
(* Bookkeeping of what the callers did, kept beside the cache              *)
(***************************************************************************)
\* k becomes the most recently touched key
Touch(r, k) == Append(Without(r, k), k)

\* the keys that left the map are forgotten
Forget(r, kept) == SelectSeq(r, LAMBDA k : k \in kept)

(***************************************************************************)
(* The TaskManager of src/task.ts: SimpleCache and the task documents      *)
(***************************************************************************)
TaskIds == {"1", "2"}
Statuses == {"todo", "in_progress", "completed", "cancelled"}
Priorities == {"low", "medium", "high"}
\* an argument the caller left out
Absent == "absent"
\* a string that is no status and no priority
Bogus == "bogus"
\* the documents of the storage directory: there is no file for id when
\* readFile or unlink would fail with ENOENT
ExistsFile(d, id) == id \in DOMAIN d
WriteFile(d, id, task) ==
  [x \in DOMAIN d \cup {id} |-> IF x = id THEN task ELSE d[x]]
Unlink(d, id) == [x \in DOMAIN d \ {id} |-> d[x]]
\* the null returned for a task that does not exist
Null == "null"
StatusArgs == Statuses \cup {Absent, Bogus}
PriorityArgs == {Absent, "high", Bogus}
\* the depends_on arguments tried: none, or the task "1"
DepsArgs == {{}, {"1"}}
\* the progress notes, as they are stored with their timestamp
NoteArgs == {Absent, "t1: n"}
\* the notes of the runs that follow progress_notes: two texts
TwoNoteArgs == NoteArgs \cup {"t2: n"}
\* the updateTask arguments tried: any status argument alone, and at most
\* one of priority, progress_note and depends_on, alone or with the status
\* in_progress
UpdateArgs ==
  {u \in [status : StatusArgs, priority : PriorityArgs,
          progress_note : NoteArgs, depends_on : DepsArgs] :
     /\ \/ u.progress_note = Absent /\ u.depends_on = {}
        \/ u.priority = Absent /\ u.depends_on = {}
        \/ u.priority = Absent /\ u.progress_note = Absent
     /\ \/ u.status \in {Absent, "in_progress"}
        \/ u.priority = Absent /\ u.progress_note = Absent /\ u.depends_on = {}}

\* readFile, writeFile and unlink succeed (unlink and readFile of a file
\* that does not exist still fail with ENOENT)
Ok == "ok"
\* the code of an I/O error that is not ENOENT
Eio == "EIO"
\* the Error TaskManager.save constructs in its catch
SaveError(err) == "Failed to save task: " \o err

\* what a TaskManager call did: the fs calls it made and the task it returned
IO(fsCalls, returned) == [calls |-> fsCalls, returned |-> returned]

\* SimpleCache.get(key)
SimpleGet(c, st, k) ==
  IF MapHas(c, k)
  THEN LET item == MapGet(c, k) IN
       [cache |-> MapSet(MapDelete(c, k), item),
        stats |-> CountHit(st),
        hit |-> TRUE,
        value |-> item.value]
  ELSE [cache |-> c, stats |-> CountMiss(st), hit |-> FALSE, value |-> Undefined]

\* SimpleCache.set(key, value)
SimpleSet(c, k, v, max) ==
  LET evicted == IF IsFull(c, max) /\ c # <<>> THEN Tail(c) ELSE c
  IN  MapSet(evicted, [key |-> k, value |-> v])

\* a delete that leaves the entry in the Map
SimpleDeleteNothing(c, k) == c

\* SimpleCache.delete(key)
SimpleDelete(c, k) == MapDelete(c, k)

\* a load that returns the document it read without caching it
LoadNoPopulate(c, st, d, id, err) ==
  LET g == SimpleGet(c, st, id) IN
  IF g.hit
  THEN [cache |-> g.cache, stats |-> g.stats, found |-> TRUE,
        task |-> g.value, calls |-> <<>>]
  ELSE [cache |-> g.cache, stats |-> g.stats,
        found |-> err = Ok /\ ExistsFile(d, id),
        task |-> IF err = Ok /\ ExistsFile(d, id) THEN d[id] ELSE Null,
        calls |-> <<"readFile">>]

\* TaskManager.load(id): the cache first, then the file, which is cached;
\* the catch returns null for ENOENT and for every other error
Load(c, st, d, id, err) ==
  LET g == SimpleGet(c, st, id) IN
  IF g.hit
  THEN [cache |-> g.cache, stats |-> g.stats, found |-> TRUE,
        task |-> g.value, calls |-> <<>>]
  ELSE IF err # Ok \/ ~ExistsFile(d, id)
       THEN [cache |-> g.cache, stats |-> g.stats, found |-> FALSE,
             task |-> Null, calls |-> <<"readFile">>]
       ELSE [cache |-> SimpleSet(g.cache, id, d[id], TaskCacheSize),
             stats |-> g.stats,
             found |-> TRUE,
             task |-> d[id],
             calls |-> <<"readFile">>]

\* TaskManager.save(id, task): writeFile, then cache.set; a failed writeFile
\* is rethrown as a new Error
Save(c, d, id, task, err) ==
  IF err # Ok
  THEN [disk |-> d, cache |-> c, threw |-> SaveError(err),
        calls |-> <<"writeFile">>]
  ELSE [disk |-> WriteFile(d, id, task),
        cache |-> SimpleSet(c, id, task, TaskCacheSize),
        threw |-> Ok,
        calls |-> <<"writeFile">>]

\* a delete that rethrows the ENOENT of unlink
DeleteRethrows(c, d, id, err) ==
  IF err # Ok
  THEN [disk |-> d, cache |-> c, result |-> "false", calls |-> <<"unlink">>]
  ELSE IF ~ExistsFile(d, id)
  THEN [disk |-> d, cache |-> c, result |-> "ENOENT", calls |-> <<"unlink">>]
  ELSE [disk |-> Unlink(d, id), cache |-> SimpleDelete(c, id),
        result |-> "true", calls |-> <<"unlink">>]

\* TaskManager.delete(id): unlink, then cache.delete; the catch returns
\* false for ENOENT and for every other error
Delete(c, d, id, err) ==
  IF err # Ok \/ ~ExistsFile(d, id)
  THEN [disk |-> d, cache |-> c, result |-> "false", calls |-> <<"unlink">>]
  ELSE [disk |-> Unlink(d, id), cache |-> SimpleDelete(c, id),
        result |-> "true", calls |-> <<"unlink">>]

\* an assignment to a field of the loaded task: the object load returned is
\* the object the cache holds, so the cached task changes with it
Mutate(c, id, task) == MapSet(c, [key |-> id, value |-> task])

\* a push that puts the note in front of the list
PushNoteFront(task, note) ==
  IF note = Absent THEN task
  ELSE [task EXCEPT !.progress_notes = <<note>> \o @]

\* task.progress_notes.push(...)
PushNote(task, note) ==
  IF note = Absent THEN task
  ELSE [task EXCEPT !.progress_notes = Append(@, note)]

\* task.depends_on as the server reads it: createTask builds the task
\* without that field
DependsOn(task) == {}

\* an update that leaves updated_at as it was
StampNothing(task) == task

\* task.updated_at = new Date().toISOString()
Stamp(task) == [task EXCEPT !.updated_at = now]

TaskCall(op, id, status, deps, result) ==
  [op |-> op, id |-> id, status |-> status, depends_on |-> deps,
   was |-> Absent, result |-> result]

\* an updateTask call on a task that load returned with the status was
UpdateCall(id, status, deps, was, result) ==
  [TaskCall("updateTask", id, status, deps, result) EXCEPT !.was = was]

\* a call that ends with save and is rejected whatever save did
OutcomeRejected(s, ok) == "error"

\* the outcome of a call that ends with save: the Error save threw, if any
Outcome(s, ok) == IF s.threw = Ok THEN ok ELSE s.threw

\* no TaskManager exists in the runs of the cache alone
TaskIdle ==
  /\ disk = [id \in {} |-> Null]
  /\ tcache = <<>>
  /\ tstats = [hits |-> 0, misses |-> 0]
  /\ tlast = TaskCall("new", Absent, Absent, {}, Null)
  /\ ioError = Ok
  /\ tio = IO(<<>>, <<>>)

Loads == tstats.hits + tstats.misses

\* a task literal that starts a task of high priority as in_progress
NewTaskStarted(id, priority) ==
  [id |-> id,
   status |-> IF priority = "high" THEN "in_progress" ELSE "todo",
   priority |-> IF priority = Absent THEN "medium" ELSE priority,
   created_at |-> now,
   updated_at |-> now,
   tags |-> {},
   progress_notes |-> <<>>]

\* const task: Task = { id, ..., status: 'todo', priority, ..., created_at,
\* updated_at, ..., progress_notes: [] } with the priority of the arguments
\* or 'medium'; new Date().toISOString() keeps the order of the clock and
\* is kept as the time itself; tags: args.tags || [] of a caller that gives
\* no tags
NewTask(id, priority) ==
  [id |-> id,
   status |-> "todo",
   priority |-> IF priority = Absent THEN "medium" ELSE priority,
   created_at |-> now,
   updated_at |-> now,
   tags |-> {},
   progress_notes |-> <<>>]

\* TaskManager.createTask(args) of a caller that gives no tags; id is the
\* crypto.randomUUID() drawn
CreateTask(id, priority, deps) ==
  /\ ~ExistsFile(disk, id)
  /\ id \notin deps
  /\ IF priority = Bogus
     THEN /\ tlast' = TaskCall("createTask", id, Absent, deps, "error")
          /\ tio' = IO(<<>>, <<>>)
          /\ UNCHANGED <<disk, tcache>>
     ELSE LET task == NewTask(id, priority)
              s == Save(tcache, disk, id, task, ioError)
          IN  /\ disk' = s.disk
              /\ tcache' = s.cache
              /\ tlast' = TaskCall("createTask", id, Absent, deps,
                                   Outcome(s, "ok"))
              /\ tio' = IO(s.calls, IF s.threw = Ok THEN <<task>> ELSE <<>>)
  /\ UNCHANGED <<tstats, ioError>>
  /\ UNCHANGED notTaskVars

\* TaskManager.updateTask(args)
UpdateTask(id, status, priority, note, deps) ==
  /\ Loads < MaxLoads
  /\ LET l == Load(tcache, tstats, disk, id, ioError) IN
     /\ tstats' = l.stats
     /\ IF ~l.found
        THEN /\ tcache' = l.cache
             /\ tlast' = TaskCall("updateTask", id, status, deps, Null)
             /\ tio' = IO(l.calls, <<>>)
             /\ UNCHANGED disk
        ELSE IF status = Bogus
        THEN /\ tcache' = l.cache
             /\ tlast' = UpdateCall(id, status, deps, l.task.status, "error")
             /\ tio' = IO(l.calls, <<>>)
             /\ UNCHANGED disk
        ELSE LET t1 == IF status = Absent THEN l.task
                       ELSE [l.task EXCEPT !.status = status] IN
             IF priority = Bogus
             THEN /\ tcache' = Mutate(l.cache, id, t1)
                  /\ tlast' = UpdateCall(id, status, deps, l.task.status,
                                          "error")
                  /\ tio' = IO(l.calls, <<>>)
                  /\ UNCHANGED disk
             ELSE LET t2 == IF priority = Absent THEN t1
                            ELSE [t1 EXCEPT !.priority = priority]
                      t3 == Stamp(PushNote(t2, note))
                      s == Save(Mutate(l.cache, id, t3), disk, id, t3, ioError)
                  IN  /\ note # Absent => Len(l.task.progress_notes) < MaxNotes
                      /\ disk' = s.disk
                      /\ tcache' = s.cache
                      /\ tlast' = UpdateCall(id, status, deps, l.task.status,
                                             Outcome(s, "ok"))
                      /\ tio' = IO(l.calls \o s.calls,
                                   IF s.threw = Ok THEN <<t3>> ELSE <<>>)
  /\ UNCHANGED ioError
  /\ UNCHANGED notTaskVars

\* TaskManager.updateStatus(id, status)
UpdateStatus(id, status) ==
  /\ Loads < MaxLoads
  /\ status # Absent
  /\ IF status = Bogus
     THEN /\ tlast' = TaskCall("updateStatus", id, status, {}, "error")
          /\ tio' = IO(<<>>, <<>>)
          /\ UNCHANGED <<disk, tcache, tstats>>
     ELSE LET l == Load(tcache, tstats, disk, id, ioError) IN
          /\ tstats' = l.stats
          /\ IF ~l.found
             THEN /\ tcache' = l.cache
                  /\ tlast' = TaskCall("updateStatus", id, status, {}, "false")
                  /\ tio' = IO(l.calls, <<>>)
                  /\ UNCHANGED disk
             ELSE LET t1 == Stamp([l.task EXCEPT !.status = status])
                      s == Save(Mutate(l.cache, id, t1), disk, id, t1, ioError)
                  IN  /\ disk' = s.disk
                      /\ tcache' = s.cache
                      /\ tlast' = TaskCall("updateStatus", id, status, {},
                                           Outcome(s, "true"))
                      /\ tio' = IO(l.calls \o s.calls, <<>>)
  /\ UNCHANGED ioError
  /\ UNCHANGED notTaskVars

\* TaskManager.addProgressNote(id, note)
AddProgressNote(id, note) ==
  /\ Loads < MaxLoads
  /\ note # Absent
  /\ LET l == Load(tcache, tstats, disk, id, ioError) IN
     /\ tstats' = l.stats
     /\ IF ~l.found
        THEN /\ tcache' = l.cache
             /\ tlast' = TaskCall("addProgressNote", id, Absent, {}, "false")
             /\ tio' = IO(l.calls, <<>>)
             /\ UNCHANGED disk
        ELSE LET t1 == Stamp(PushNote(l.task, note))
                 s == Save(Mutate(l.cache, id, t1), disk, id, t1, ioError)
             IN  /\ Len(l.task.progress_notes) < MaxNotes
                 /\ disk' = s.disk
                 /\ tcache' = s.cache
                 /\ tlast' = TaskCall("addProgressNote", id, Absent, {},
                                      Outcome(s, "true"))
                 /\ tio' = IO(l.calls \o s.calls, <<>>)
  /\ UNCHANGED ioError
  /\ UNCHANGED notTaskVars

\* TaskManager.getTaskStatus(args): load(args.id)
GetTaskStatus(id) ==
  /\ Loads < MaxLoads
  /\ LET l == Load(tcache, tstats, disk, id, ioError) IN
     /\ tstats' = l.stats
     /\ tcache' = l.cache
     /\ tlast' = TaskCall("getTaskStatus", id, Absent, {},
                          IF l.found THEN "task" ELSE Null)
     /\ tio' = IO(l.calls, IF l.found THEN <<l.task>> ELSE <<>>)
  /\ UNCHANGED <<disk, ioError>>
  /\ UNCHANGED notTaskVars

\* TaskManager.deleteTask(args): delete(args.id)
DeleteTask(id) ==
  /\ LET r == Delete(tcache, disk, id, ioError) IN
     /\ disk' = r.disk
     /\ tcache' = r.cache
     /\ tlast' = TaskCall("deleteTask", id, Absent, {}, r.result)
     /\ tio' = IO(r.calls, <<>>)
  /\ UNCHANGED <<tstats, ioError>>
  /\ UNCHANGED notTaskVars

\* the file system starts to fail: every fs call raises EIO
IoBreaks ==
  /\ ioError = Ok
  /\ ioError' = Eio
  /\ UNCHANGED <<disk, tcache, tstats, tlast, tio>>
  /\ UNCHANGED notTaskVars

\* the file system works again
IoRecovers ==
  /\ ioError = Eio
  /\ ioError' = Ok
  /\ UNCHANGED <<disk, tcache, tstats, tlast, tio>>
  /\ UNCHANGED notTaskVars

\* the calls of a sequential client; the file system does not fail
TaskNext ==
  \/ \E id \in TaskIds, p \in PriorityArgs, deps \in DepsArgs :
       CreateTask(id, p, deps)
  \/ \E id \in TaskIds, u \in UpdateArgs :
       UpdateTask(id, u.status, u.priority, u.progress_note, u.depends_on)
  \/ \E id \in TaskIds, st \in StatusArgs : UpdateStatus(id, st)
  \/ \E id \in TaskIds, n \in NoteArgs : AddProgressNote(id, n)
  \/ \E id \in TaskIds : GetTaskStatus(id)
  \/ \E id \in TaskIds : DeleteTask(id)

\* the calls of a client that adds notes, of either text, to its tasks
NotesNext ==
  \/ \E id \in TaskIds : CreateTask(id, Absent, {})
  \/ \E id \in TaskIds, st \in {Absent, "in_progress", "completed"},
        n \in TwoNoteArgs :
       UpdateTask(id, st, Absent, n, {})
  \/ \E id \in TaskIds : UpdateStatus(id, "completed")
  \/ \E id \in TaskIds, n \in TwoNoteArgs : AddProgressNote(id, n)
  \/ \E id \in TaskIds : DeleteTask(id)

\* the calls of a sequential client on a file system that fails at times
FaultNext ==
  \/ \E id \in TaskIds : CreateTask(id, Absent, {})
  \/ \E id \in TaskIds, st \in {Absent, "in_progress"} :
       UpdateTask(id, st, Absent, Absent, {})
  \/ \E id \in TaskIds : UpdateStatus(id, "completed")
  \/ \E id \in TaskIds : AddProgressNote(id, "t1: n")
  \/ \E id \in TaskIds : GetTaskStatus(id)
  \/ \E id \in TaskIds : DeleteTask(id)
  \/ IoBreaks
  \/ IoRecovers

(***************************************************************************)
(* The dependency views the server calls on the TaskManager                *)
(***************************************************************************)
ExecIds == <<"A", "B", "C">>
\* an id that names no task of the snapshot
MissingId == "Z"

\* the depends_on lists a task with the given id may carry
DepsChoices(id) ==
  {ds \in SUBSET ((Range(ExecIds) \cup {MissingId}) \ {id}) :
     Cardinality(ds) <= MaxDeps}

TaskChoices(id) ==
  [id : {id}, status : Statuses, depends_on : DepsChoices(id)]

Snapshots ==
  {<<a, b, c>> : a \in TaskChoices(ExecIds[1]),
                 b \in TaskChoices(ExecIds[2]),
                 c \in TaskChoices(ExecIds[3])}

\* the task of the snapshot with the given id is completed
ResolvesCompleted(all, d) ==
  \E i \in 1..Len(all) : all[i].id = d /\ all[i].status = "completed"

\* an isExecutable that ignores the ids that name no task
IsExecutableLenient(task, all) ==
  /\ task.status = "todo"
  /\ \A d \in task.depends_on :
       (\E i \in 1..Len(all) : all[i].id = d) => ResolvesCompleted(all, d)

\* isExecutable(task, allTasks)
IsExecutable(task, all) ==
  /\ task.status = "todo"
  /\ \A d \in task.depends_on : ResolvesCompleted(all, d)

\* a getExecutableTasks that returns every task
GetExecutableTasksAll(all) == all

\* getExecutableTasks(): allTasks filtered by isExecutable, order kept
GetExecutableTasks(all) == SelectSeq(all, LAMBDA t : IsExecutable(t, all))

\* the ids of the tasks of a list
IdsOf(all) == {all[i].id : i \in 1..Len(all)}

\* every id of depends_on taken as an edge, also one that names no task
AllDeps(task, all) == task.depends_on

\* the depends_on edges of a task: the ids that name a task of the input
InputDeps(task, all) == task.depends_on \cap IdsOf(all)

\* the tie-break: ids that are not numeric-like compare as strings, which
\* for the ids of ExecIds is their order in ExecIds
IdRank(id) == CHOOSE i \in 1..Len(ExecIds) : ExecIds[i] = id

\* every task not yet emitted, whatever its edges
ReadyAny(all, out) ==
  {i \in 1..Len(all) : all[i].id \notin IdsOf(out)}

\* the tasks of zero remaining indegree: not yet emitted, every edge of
\* theirs leading to an emitted task
Ready(all, out) ==
  {i \in 1..Len(all) :
     /\ all[i].id \notin IdsOf(out)
     /\ InputDeps(all[i], all) \subseteq IdsOf(out)}

\* the ready task the tie-break chooses
PickReady(all, out) ==
  CHOOSE i \in Ready(all, out) :
    \A j \in Ready(all, out) : IdRank(all[i].id) <= IdRank(all[j].id)

\* no snapshot is under view in the runs of the cache and the TaskManager
ExecIdle ==
  /\ allTasks = <<>>
  /\ executable = <<>>
  /\ tasksInOrder = <<>>
  /\ epc = "idle"

\* const executableTasks = await this.taskManager.getExecutableTasks()
RunGetExecutableTasks ==
  /\ epc = "start"
  /\ executable' = GetExecutableTasks(allTasks)
  /\ epc' = "done"
  /\ UNCHANGED <<allTasks, tasksInOrder>>
  /\ UNCHANGED notExecVars

\* const tasksInOrder = await this.taskManager.getTasksInOrder(): one
\* iteration of Kahn's loop, which returns when no task is ready
GetTasksInOrderStep ==
  /\ epc \in {"done", "ordering"}
  /\ IF Ready(allTasks, tasksInOrder) = {}
     THEN /\ epc' = "ordered"
          /\ UNCHANGED tasksInOrder
     ELSE /\ tasksInOrder' =
               Append(tasksInOrder, allTasks[PickReady(allTasks, tasksInOrder)])
          /\ epc' = "ordering"
  /\ UNCHANGED <<allTasks, executable>>
  /\ UNCHANGED notExecVars

\* the orders in which readdir can name the files of the storage directory
Orders(S) ==
  {o \in [1..Cardinality(S) -> S] :
     \A i, j \in 1..Cardinality(S) : o[i] = o[j] => i = j}

\* a task of list() as the dependency views read it
ListedTask(id, task) ==
  [id |-> id, status |-> task.status, depends_on |-> DependsOn(task)]

\* the tasks of list() as the dependency views read them
Listed(tasks) ==
  [i \in 1..Len(tasks) |-> ListedTask(tasks[i].id, tasks[i].task)]

\* TaskManager.list(): load(id) for every file readdir names, in that order;
\* a task load returns null for is left out, a failed readdir gives []
RECURSIVE List(_, _, _, _, _)
List(c, st, d, ids, err) ==
  IF err # Ok \/ ids = <<>>
  THEN [cache |-> c, stats |-> st, tasks |-> <<>>]
  ELSE LET l == Load(c, st, d, Head(ids), err)
           rest == List(l.cache, l.stats, d, Tail(ids), err)
       IN  [cache |-> rest.cache,
            stats |-> rest.stats,
            tasks |-> IF l.found
                      THEN <<[id |-> Head(ids), task |-> l.task]>>
                           \o rest.tasks
                      ELSE rest.tasks]

\* const executableTasks = await this.taskManager.getExecutableTasks(), the
\* call the create and update handlers make after the TaskManager call; the
\* call record keeps the call it follows, with that call's operation in was
TaskGetExecutableTasks ==
  /\ Loads < MaxListLoads
  /\ \E o \in Orders(DOMAIN disk) :
       LET ls == List(tcache, tstats, disk, o, ioError) IN
       /\ tcache' = ls.cache
       /\ tstats' = ls.stats
       /\ allTasks' = Listed(ls.tasks)
       /\ executable' = GetExecutableTasks(Listed(ls.tasks))
  /\ tlast' = [tlast EXCEPT !.op = "getExecutableTasks", !.was = tlast.op]
  /\ tio' = IO(<<"readdir">>, <<>>)
  /\ UNCHANGED <<disk, ioError, tasksInOrder, epc>>
  /\ UNCHANGED <<cacheVars, raceVars, viewVars, sideVars, listVars>>

\* the calls of a client that creates tasks, moves them through the
\* lifecycle and asks for the executable tasks
LifecycleNext ==
  \/ \E id \in TaskIds, deps \in DepsArgs : CreateTask(id, Absent, deps)
  \/ \E id \in TaskIds, st \in {"in_progress", "completed"} :
       UpdateTask(id, st, Absent, Absent, {})
  \/ \E id \in TaskIds : DeleteTask(id)
  \/ TaskGetExecutableTasks

(***************************************************************************)
(* TaskManager.listTasks: the filters and the order of the list            *)
(***************************************************************************)
\* the ids of the tasks that are listed
ListIds == {"1", "2", "3"}
\* the createTask arguments that made the stored tasks: per id its priority
\* and its tags
CreateArgs ==
  {[id |-> "1", priority |-> "medium", tags |-> {"b"}],
   [id |-> "2", priority |-> "high", tags |-> {"a"}],
   [id |-> "3", priority |-> "medium", tags |-> {"c"}]}
\* the times, before the TaskManager was constructed, at which the stored
\* tasks were updated last
StoredAt == {0 - age : age \in 0..MaxAge}
\* the documents a storage directory can hold when the TaskManager is
\* constructed: tasks created at the earliest time, and either left as
\* they were or started at a later time
StoredTasks ==
  {[id |-> c.id,
    status |-> IF at = 0 - MaxAge THEN "todo" ELSE "in_progress",
    priority |-> c.priority,
    created_at |-> 0 - MaxAge, updated_at |-> at, tags |-> c.tags,
    progress_notes |-> <<>>] :
     c \in CreateArgs, at \in StoredAt}
\* the storage directories: some of the ids, each with a document of its own
Directories ==
  {d \in UNION {[S -> StoredTasks] : S \in SUBSET ListIds} :
     \A id \in DOMAIN d : d[id].id = id}
\* the tags arguments tried: none (or []), a tag some tasks carry, and two
\* tags of which tasks carry at most one
TagsArgs == {{}, {"a"}, {"b", "c"}}
\* the listTasks arguments tried: no filter, a filter that is no status or
\* no priority, and the status in_progress with a priority or with tags
ListArgs ==
  {a \in [status : {Absent, "in_progress", Bogus}, priority : PriorityArgs,
          tags : TagsArgs] :
     \/ a.status = Absent /\ a.priority \in {Absent, Bogus} /\ a.tags = {}
     \/ a.status = Bogus /\ a.priority = Absent /\ a.tags = {}
     \/ a.status = "in_progress" /\ a.priority = "high" /\ a.tags = {}
     \/ a.status = "in_progress" /\ a.priority = Absent /\ a.tags # {}}

\* no listTasks call was made
ListIdle ==
  listing = [status |-> Absent, priority |-> Absent, tags |-> {},
             result |-> Null, tasks |-> <<>>]

\* a tags filter that asks for every tag
SomeTagAll(task, tags) == tags \subseteq task.tags

\* args.tags.some(tag => task.tags.includes(tag))
SomeTag(task, tags) == \E tag \in tags : tag \in task.tags

\* the comparator of the sort: dateB - dateA, with
\* new Date(updated_at).getTime() kept as the time itself
Compare(a, b) == b.updated_at - a.updated_at

\* tasks.sort(compare) of a sorted list to which task is appended: the sort
\* is stable, task goes behind every task it does not have to precede
RECURSIVE SortIn(_, _)
SortIn(sorted, task) ==
  IF sorted = <<>> THEN <<task>>
  ELSE IF Compare(Head(sorted), task) <= 0
       THEN <<Head(sorted)>> \o SortIn(Tail(sorted), task)
       ELSE <<task>> \o sorted

\* tasks.sort((a, b) => dateB - dateA)
RECURSIVE Sort(_)
Sort(tasks) ==
  IF tasks = <<>> THEN <<>>
  ELSE SortIn(Sort(SubSeq(tasks, 1, Len(tasks) - 1)), tasks[Len(tasks)])

\* the body of listTasks after list() returned tasks: a filter given is
\* validated, then applied; the list is sorted and returned, or the Error
\* is thrown
FilterAndSort(tasks, status, priority, tags) ==
  IF status # Absent /\ status \notin Statuses
  THEN [result |-> "error", tasks |-> <<>>]
  ELSE LET t1 == IF status = Absent THEN tasks
                 ELSE SelectSeq(tasks, LAMBDA task : task.status = status)
       IN
       IF priority # Absent /\ priority \notin Priorities
       THEN [result |-> "error", tasks |-> <<>>]
       ELSE LET t2 == IF priority = Absent THEN t1
                      ELSE SelectSeq(t1,
                                     LAMBDA task : task.priority = priority)
                t3 == IF tags = {} THEN t2
                      ELSE SelectSeq(t2, LAMBDA task : SomeTag(task, tags))
            IN  [result |-> "ok", tasks |-> Sort(t3)]

\* TaskManager.listTasks(args)
ListTasks(status, priority, tags) ==
  /\ Loads < MaxListLoads
  /\ \E o \in Orders(DOMAIN disk) :
       LET ls == List(tcache, tstats, disk, o, ioError)
           r == FilterAndSort([i \in 1..Len(ls.tasks) |-> ls.tasks[i].task],
                              status, priority, tags)
       IN  /\ tcache' = ls.cache
           /\ tstats' = ls.stats
           /\ listing' = [status |-> status, priority |-> priority,
                          tags |-> tags, result |-> r.result,
                          tasks |-> r.tasks]
           /\ tlast' = TaskCall("listTasks", Absent, status, {}, r.result)
  /\ tio' = IO(<<"readdir">>, <<>>)
  /\ UNCHANGED <<disk, ioError>>
  /\ UNCHANGED <<cacheVars, execVars, raceVars, viewVars, sideVars>>

(***************************************************************************)
(* The web-viewer process: a second TaskManager on the same directory      *)
(***************************************************************************)
\* the viewer has answered no request; its TaskManager has cached nothing
ViewIdle ==
  viewer = [cache |-> <<>>, stats |-> [hits |-> 0, misses |-> 0],
            op |-> "new", id |-> Absent, task |-> <<>>, tasks |-> {}]

ViewLoads == viewer.stats.hits + viewer.stats.misses

\* GET /api/tasks/<id>: taskManager.getTaskStatus({ id }) of the viewer
ViewTask(id) ==
  /\ ViewLoads < MaxViews
  /\ LET l == Load(viewer.cache, viewer.stats, disk, id, ioError) IN
     viewer' = [cache |-> l.cache, stats |-> l.stats, op |-> "task",
                id |-> id,
                task |-> IF l.found THEN <<l.task>> ELSE <<>>,
                tasks |-> {}]
  /\ UNCHANGED notViewVars

\* GET /api/tasks: taskManager.listTasks() of the viewer, answered as the
\* id, status and priority of each task; the tasks carry no updated_at
\* here, so the answer is kept as a set
ViewTasks ==
  /\ ViewLoads < MaxViews
  /\ \E o \in Orders(DOMAIN disk) :
       LET ls == List(viewer.cache, viewer.stats, disk, o, ioError) IN
       viewer' = [cache |-> ls.cache, stats |-> ls.stats, op |-> "tasks",
                  id |-> Absent, task |-> <<>>,
                  tasks |-> {[id |-> t.id, status |-> t.task.status,
                              priority |-> t.task.priority] :
                               t \in Range(ls.tasks)}]
  /\ UNCHANGED notViewVars

\* the MCP server creates and updates tasks while the dashboard reads them
ViewerNext ==
  \/ \E id \in TaskIds : CreateTask(id, Absent, {})
  \/ \E id \in TaskIds, st \in {"in_progress", "completed"} :
       UpdateTask(id, st, Absent, Absent, {})
  \/ \E id \in TaskIds : ViewTask(id)
  \/ ViewTasks

(***************************************************************************)
(* The tool-call handler of the MCP server                                 *)
(***************************************************************************)
ToolNames == {"memory_tool", "task_tool", "create_context_snapshot", "overview"}
\* a tool name the server does not know
BogusTool == "bogus_tool"
\* the operations the switch of each tool names
Operations(name) ==
  IF name = "memory_tool" THEN {"create", "read", "search", "list", "delete"}
  ELSE IF name = "task_tool"
  THEN {"create", "read", "update", "delete", "list", "search"}
  ELSE {}
\* the operation arguments tried: the known ones, one no switch names, none
OperationArgs ==
  Operations("memory_tool") \cup Operations("task_tool") \cup {Bogus, Absent}
\* what the manager call of the operation does: it returns an entity, it
\* returns null or false, or it throws the Error of a failed write
Returns == "returns"
ReturnsNothing == "returns nothing"
Throws == "throws"
ManagerOutcomes == {Returns, ReturnsNothing, Throws}

\* a response of the handler, and an exception on its way out of a block
TextResult(text) == [kind |-> "text", text |-> text]
Exception(message) == [kind |-> "exception", text |-> message]
NoResponse == [kind |-> "none", text |-> None]

\* the manager call inside a case, and the result the case returns
ManagerCall(name, operation, outcome) ==
  IF outcome = Throws THEN Exception(SaveError(Eio))
  ELSE IF outcome = ReturnsNothing THEN TextResult("does not exist")
  ELSE TextResult("successfully")

\* the body of the try: switch (name), and inside memory_tool and
\* task_tool the destructuring of args and switch (operation)
SwitchName(name, hasArgs, operation, outcome) ==
  IF name \in {"memory_tool", "task_tool"}
  THEN IF ~hasArgs
       THEN Exception("Cannot destructure property 'operation'")
       ELSE IF operation \notin Operations(name)
       THEN TextResult("Unknown operation: " \o operation)
       ELSE ManagerCall(name, operation, outcome)
  ELSE IF name \in ToolNames
  THEN ManagerCall(name, operation, outcome)
  ELSE TextResult("Unknown tool: " \o name)

\* a handler without catch: what the try block threw leaves the handler
TryRethrows(name, r) == r

\* try { ... } catch (error) { return text 'Error occurred while executing
\* tool ...' }
Try(name, r) ==
  IF r.kind = "exception"
  THEN TextResult("Error occurred while executing tool " \o name \o ": "
                  \o r.text)
  ELSE r

\* the CallToolRequestSchema handler
HandleToolCall(name, hasArgs, operation, outcome) ==
  Try(name, SwitchName(name, hasArgs, operation, outcome))

\* no tool call was handled
ToolIdle ==
  tool = [name |-> Absent, hasArgs |-> FALSE, operation |-> Absent,
          outcome |-> Returns, response |-> NoResponse]

\* a client calls a tool
CallTool(name, hasArgs, operation, outcome) ==
  /\ tool' = [name |-> name, hasArgs |-> hasArgs, operation |-> operation,
              outcome |-> outcome,
              response |-> HandleToolCall(name, hasArgs, operation, outcome)]
  /\ UNCHANGED <<client, watcher>>
  /\ UNCHANGED notSideVars

ToolNext ==
  \E name \in ToolNames \cup {BogusTool}, hasArgs \in BOOLEAN,
     operation \in OperationArgs, outcome \in ManagerOutcomes :
    CallTool(name, hasArgs, operation, outcome)

(***************************************************************************)
(* The dashboard page and its WebSocket                                    *)
(***************************************************************************)
ReadyStates == {"CONNECTING", "OPEN", "CLOSING", "CLOSED"}

\* the page before DOMContentLoaded: let ws = null; let reconnectInterval =
\* null (0 stands for null); intervals counts the setInterval calls
DashIdle ==
  client = [sockets |-> <<>>, ws |-> 0, reconnectInterval |-> 0,
            timers |-> {}, intervals |-> 0, pending |-> 0,
            loaded |-> FALSE, status |-> None]

\* the test at the head of connectWebSocket
Connected(c) ==
  c.ws # 0 /\ c.sockets[c.ws] \in {"OPEN", "CONNECTING"}

\* connectWebSocket(): return when ws is OPEN or CONNECTING, else
\* ws = new WebSocket(WS_BASE) with its four handlers
ConnectWebSocket(c) ==
  IF Connected(c) THEN c
  ELSE [c EXCEPT !.sockets = Append(@, "CONNECTING"),
                 !.ws = Len(c.sockets) + 1]

\* a call of connectWebSocket can be made within the sockets of the run
CanConnect(c) == Connected(c) \/ Len(c.sockets) < MaxSockets

\* document.addEventListener('DOMContentLoaded', initViewer): initViewer
\* runs up to its await of the four fetches
DomContentLoaded ==
  /\ ~client.loaded
  /\ client' = [client EXCEPT !.loaded = TRUE, !.pending = @ + 1]
  /\ UNCHANGED <<tool, watcher>>
  /\ UNCHANGED notSideVars

\* initViewer after its await: the sections are rendered, connectWebSocket()
InitViewerContinues ==
  /\ client.pending > 0
  /\ CanConnect(client)
  /\ client' = [ConnectWebSocket(client) EXCEPT !.pending = @ - 1]
  /\ UNCHANGED <<tool, watcher>>
  /\ UNCHANGED notSideVars

\* socket i opens; its onopen shows 'connected' and clears the interval
SocketOpens(i) ==
  /\ client.sockets[i] = "CONNECTING"
  /\ client' = [client EXCEPT
                  !.sockets[i] = "OPEN",
                  !.status = "connected",
                  !.timers = @ \ {client.reconnectInterval},
                  !.reconnectInterval = 0]
  /\ UNCHANGED <<tool, watcher>>
  /\ UNCHANGED notSideVars

\* the closing handshake of socket i starts: readyState is CLOSING; no
\* handler runs
SocketStartsClosing(i) ==
  /\ client.sockets[i] = "OPEN"
  /\ client' = [client EXCEPT !.sockets[i] = "CLOSING"]
  /\ UNCHANGED <<tool, watcher>>
  /\ UNCHANGED notSideVars

\* socket i reports an error; its onerror shows 'error'
SocketError(i) ==
  /\ client.sockets[i] # "CLOSED"
  /\ client.status # "error"
  /\ client' = [client EXCEPT !.status = "error"]
  /\ UNCHANGED <<tool, watcher>>
  /\ UNCHANGED notSideVars

\* socket i is closed; its onclose shows 'disconnected' and, when
\* reconnectInterval is null, sets the interval that calls connectWebSocket
SocketCloses(i) ==
  /\ client.sockets[i] # "CLOSED"
  /\ IF client.reconnectInterval = 0
     THEN /\ client.intervals < MaxIntervals
          /\ client' = [client EXCEPT
                          !.sockets[i] = "CLOSED",
                          !.status = "disconnected",
                          !.intervals = @ + 1,
                          !.reconnectInterval = client.intervals + 1,
                          !.timers = @ \cup {client.intervals + 1}]
     ELSE client' = [client EXCEPT !.sockets[i] = "CLOSED",
                                   !.status = "disconnected"]
  /\ UNCHANGED <<tool, watcher>>
  /\ UNCHANGED notSideVars

\* the interval timer t fires: connectWebSocket()
TimerFires(t) ==
  /\ t \in client.timers
  /\ ~Connected(client)
  /\ CanConnect(client)
  /\ client' = ConnectWebSocket(client)
  /\ UNCHANGED <<tool, watcher>>
  /\ UNCHANGED notSideVars

\* socket i delivers a message of type 'refresh' (or of a type the switch
\* does not name): handleWebSocketMessage calls refreshAllData, which calls
\* initViewer; it runs up to its await
RefreshMessage(i) ==
  /\ client.sockets[i] = "OPEN"
  /\ client.pending < MaxPending
  /\ client' = [client EXCEPT !.pending = @ + 1]
  /\ UNCHANGED <<tool, watcher>>
  /\ UNCHANGED notSideVars

DashNext ==
  \/ DomContentLoaded
  \/ InitViewerContinues
  \/ \E i \in 1..Len(client.sockets) : SocketOpens(i)
  \/ \E i \in 1..Len(client.sockets) : SocketStartsClosing(i)
  \/ \E i \in 1..Len(client.sockets) : SocketError(i)
  \/ \E i \in 1..Len(client.sockets) : SocketCloses(i)
  \/ \E t \in client.timers : TimerFires(t)
  \/ \E i \in 1..Len(client.sockets) : RefreshMessage(i)

(***************************************************************************)
(* The polling watcher of the web-viewer, on one subdirectory              *)
(***************************************************************************)
\* the file names of the subdirectory, in the order readdirSync lists them
FileNames == <<"1.json", "2.json">>
FileSizes == {10, 20}

\* setupPollingWatcher before its first scan: let lastScan = {}; the
\* subdirectory is empty
WatchIdle ==
  watcher = [files |-> [n \in {} |-> [mtime |-> 0, size |-> 0]],
             time |-> 0, lastScan |-> <<>>, scans |-> 0, broadcasts |-> 0]

\* files.map(file => ({ name, mtime, size })) over readdirSync
CurrentScan(files) ==
  LET present == SelectSeq(FileNames, LAMBDA n : n \in DOMAIN files) IN
  [i \in 1..Len(present) |->
     [name |-> present[i], mtime |-> files[present[i]].mtime,
      size |-> files[present[i]].size]]

\* const hasChanges = currentScan.length !== lastScanForDir.length ||
\* currentScan.some((file, index) => ...)
HasChanges(currentScan, lastScanForDir) ==
  \/ Len(currentScan) # Len(lastScanForDir)
  \/ \E index \in 1..Len(currentScan) :
       \/ index > Len(lastScanForDir)
       \/ currentScan[index].name # lastScanForDir[index].name
       \/ currentScan[index].mtime # lastScanForDir[index].mtime
       \/ currentScan[index].size # lastScanForDir[index].size

\* a manager of the MCP server writes a file of the subdirectory
FileWritten(name, size) ==
  /\ watcher.time < MaxWrites
  /\ watcher' = [watcher EXCEPT
                   !.time = @ + 1,
                   !.files = [n \in DOMAIN watcher.files \cup {name} |->
                                IF n = name
                                THEN [mtime |-> watcher.time + 1, size |-> size]
                                ELSE watcher.files[n]]]
  /\ UNCHANGED <<tool, client>>
  /\ UNCHANGED notSideVars

\* a manager of the MCP server unlinks a file of the subdirectory
FileRemoved(name) ==
  /\ name \in DOMAIN watcher.files
  /\ watcher' = [watcher EXCEPT
                   !.files = [n \in DOMAIN watcher.files \ {name} |->
                                watcher.files[n]]]
  /\ UNCHANGED <<tool, client>>
  /\ UNCHANGED notSideVars

\* scanDirectory for the subdirectory: the initial scan or a tick of
\* setInterval(scanDirectory, 2000); broadcastUpdate when hasChanges and
\* the last scan had files
ScanDirectory ==
  /\ watcher.scans < MaxScans
  /\ LET currentScan == CurrentScan(watcher.files)
         lastScanForDir == watcher.lastScan
     IN  watcher' = [watcher EXCEPT
                       !.scans = @ + 1,
                       !.broadcasts =
                          IF /\ HasChanges(currentScan, lastScanForDir)
                             /\ Len(lastScanForDir) > 0
                          THEN @ + 1 ELSE @,
                       !.lastScan = currentScan]
  /\ UNCHANGED <<tool, client>>
  /\ UNCHANGED notSideVars

WatchNext ==
  \/ \E name \in Range(FileNames), size \in FileSizes : FileWritten(name, size)
  \/ \E name \in Range(FileNames) : FileRemoved(name)
  \/ ScanDirectory

\* the tool handler, the dashboard and the watcher are not part of the run
SideIdle == ToolIdle /\ DashIdle /\ WatchIdle

(***************************************************************************)
(* Two updateTask calls on one task, in flight at the same time            *)
(***************************************************************************)
Callers == {"u1", "u2"}
\* the id both calls update
RaceId == "1"
\* the document of RaceId when the calls are made
StoredTask ==
  [id |-> RaceId, status |-> "todo", priority |-> "medium", created_at |-> 0,
   updated_at |-> 0, tags |-> {}, progress_notes |-> <<>>]

\* an updateTask call that has not started
NewCall(status, note) ==
  [pc |-> "call", status |-> status, progress_note |-> note,
   held |-> <<>>, shared |-> FALSE, doc |-> <<>>]

\* no updateTask calls are in flight at once in the sequential runs
RaceIdle == procs = <<>>

\* cache.set(id, object) by caller p: its object is the cached one from now
\* on; another caller's object stays the cached one only when it is p's
SetBy(p, wasShared) ==
  [q \in Callers |->
     IF q = p THEN [procs[q] EXCEPT !.shared = TRUE]
     ELSE [procs[q] EXCEPT !.shared = @ /\ wasShared]]

\* updateTask up to the await in load: cache.get, and on a miss the
\* readFile is issued
CallLoad(p) ==
  /\ procs[p].pc = "call"
  /\ LET g == SimpleGet(tcache, tstats, RaceId) IN
     /\ tcache' = g.cache
     /\ tstats' = g.stats
     /\ procs' = IF g.hit
                 THEN [procs EXCEPT ![p].pc = "loaded",
                                    ![p].held = <<g.value>>,
                                    ![p].shared = TRUE]
                 ELSE [procs EXCEPT ![p].pc = "reading"]
  /\ UNCHANGED disk
  /\ UNCHANGED notRaceVars

\* the readFile of load completes: JSON.parse, cache.set, return
ReadFileDone(p) ==
  /\ procs[p].pc = "reading"
  /\ IF ~ExistsFile(disk, RaceId)
     THEN /\ procs' = [procs EXCEPT ![p].pc = "done"]
          /\ UNCHANGED tcache
     ELSE /\ tcache' = SimpleSet(tcache, RaceId, disk[RaceId], TaskCacheSize)
          /\ procs' = [SetBy(p, FALSE) EXCEPT ![p].pc = "loaded",
                                              ![p].held = <<disk[RaceId]>>]
  /\ UNCHANGED <<disk, tstats>>
  /\ UNCHANGED notRaceVars

\* updateTask from the return of load to the await in save: the
\* assignments to the task object, JSON.stringify, writeFile issued
AssignAndSave(p) ==
  /\ procs[p].pc = "loaded"
  /\ LET me == procs[p]
         t1 == IF me.status = Absent THEN me.held[1]
               ELSE [me.held[1] EXCEPT !.status = me.status]
         t2 == Stamp(PushNote(t1, me.progress_note))
     IN  /\ procs' = [q \in Callers |->
                        IF q = p
                        THEN [me EXCEPT !.pc = "writing", !.held = <<t2>>,
                                        !.doc = <<t2>>]
                        ELSE IF me.shared /\ procs[q].shared
                             THEN [procs[q] EXCEPT !.held = <<t2>>]
                             ELSE procs[q]]
         /\ tcache' = IF me.shared THEN Mutate(tcache, RaceId, t2) ELSE tcache
  /\ UNCHANGED <<disk, tstats>>
  /\ UNCHANGED notRaceVars

\* the writeFile of save completes, in whatever order the file system ends
\* the writes in flight: the text reaches the file, then cache.set
WriteFileDone(p) ==
  /\ procs[p].pc = "writing"
  /\ disk' = WriteFile(disk, RaceId, procs[p].doc[1])
  /\ tcache' = SimpleSet(tcache, RaceId, procs[p].held[1], TaskCacheSize)
  /\ procs' = [SetBy(p, procs[p].shared) EXCEPT ![p].pc = "done"]
  /\ UNCHANGED tstats
  /\ UNCHANGED notRaceVars

RaceNext ==
  \E p \in Callers :
    \/ CallLoad(p)
    \/ ReadFileDone(p)
    \/ AssignAndSave(p)
    \/ WriteFileDone(p)

(***************************************************************************)
(* load(id) calls that overlap one save(id, v) or delete(id)               *)
(***************************************************************************)
\* the calls in flight: two loads of RaceId and one save or delete of it
Loaders == {"l1", "l2"}
Writer == "w"
\* the documents save is called with
SavedTasks ==
  {[StoredTask EXCEPT !.status = st] : st \in {"in_progress", "completed"}}

\* a load(id) call that has not started
NewLoad ==
  [op |-> "load", pc |-> "call", held |-> <<>>, result |-> Null,
   late |-> FALSE]
\* a save(id, v) or delete(id) call that has not started
NewWrite(op, v) ==
  [op |-> op, pc |-> "call", held |-> v, result |-> Null, late |-> FALSE]

\* the save or delete has returned
WriterDone == procs[Writer].pc = "done"

\* load up to its await: cache.get, and on a miss the readFile is issued;
\* late tells that the save or delete had returned when the load started
LoadGets(p) ==
  /\ procs[p].pc = "call"
  /\ LET g == SimpleGet(tcache, tstats, RaceId) IN
     /\ tcache' = g.cache
     /\ tstats' = g.stats
     /\ procs' = IF g.hit
                 THEN [procs EXCEPT ![p].pc = "done", ![p].result = "task",
                                    ![p].held = <<g.value>>,
                                    ![p].late = WriterDone]
                 ELSE [procs EXCEPT ![p].pc = "reading",
                                    ![p].late = WriterDone]
  /\ UNCHANGED disk
  /\ UNCHANGED notRaceVars

\* the file system serves the readFile of load: the text the file holds at
\* that moment, or ENOENT
LoadReads(p) ==
  /\ procs[p].pc = "reading"
  /\ procs' = [procs EXCEPT
                 ![p].pc = "read",
                 ![p].held = IF ExistsFile(disk, RaceId) THEN <<disk[RaceId]>>
                             ELSE <<>>]
  /\ UNCHANGED <<disk, tcache, tstats>>
  /\ UNCHANGED notRaceVars

\* load after its await: JSON.parse, cache.set and return of the task, or
\* null from the catch on ENOENT
LoadReturns(p) ==
  /\ procs[p].pc = "read"
  /\ IF procs[p].held = <<>>
     THEN /\ procs' = [procs EXCEPT ![p].pc = "done"]
          /\ UNCHANGED tcache
     ELSE /\ tcache' = SimpleSet(tcache, RaceId, procs[p].held[1],
                                 TaskCacheSize)
          /\ procs' = [procs EXCEPT ![p].pc = "done", ![p].result = "task"]
  /\ UNCHANGED <<disk, tstats>>
  /\ UNCHANGED notRaceVars

\* the file system serves the writeFile of save
SaveWrites ==
  /\ procs[Writer].op = "save"
  /\ procs[Writer].pc = "call"
  /\ disk' = WriteFile(disk, RaceId, procs[Writer].held[1])
  /\ procs' = [procs EXCEPT ![Writer].pc = "served"]
  /\ UNCHANGED <<tcache, tstats>>
  /\ UNCHANGED notRaceVars

\* save after its await: cache.set(id, task)
SaveReturns ==
  /\ procs[Writer].op = "save"
  /\ procs[Writer].pc = "served"
  /\ tcache' = SimpleSet(tcache, RaceId, procs[Writer].held[1], TaskCacheSize)
  /\ procs' = [procs EXCEPT ![Writer].pc = "done", ![Writer].result = Ok]
  /\ UNCHANGED <<disk, tstats>>
  /\ UNCHANGED notRaceVars

\* the file system serves the unlink of delete
DeleteUnlinks ==
  /\ procs[Writer].op = "delete"
  /\ procs[Writer].pc = "call"
  /\ disk' = Unlink(disk, RaceId)
  /\ procs' = [procs EXCEPT ![Writer].pc = "served"]
  /\ UNCHANGED <<tcache, tstats>>
  /\ UNCHANGED notRaceVars

\* delete after its await: cache.delete(id), return true
DeleteReturns ==
  /\ procs[Writer].op = "delete"
  /\ procs[Writer].pc = "served"
  /\ tcache' = SimpleDelete(tcache, RaceId)
  /\ procs' = [procs EXCEPT ![Writer].pc = "done", ![Writer].result = "true"]
  /\ UNCHANGED <<disk, tstats>>
  /\ UNCHANGED notRaceVars

OverlapNext ==
  \/ \E p \in Loaders : LoadGets(p)
  \/ \E p \in Loaders : LoadReads(p)
  \/ \E p \in Loaders : LoadReturns(p)
  \/ SaveWrites
  \/ SaveReturns
  \/ DeleteUnlinks
  \/ DeleteReturns

(***************************************************************************)
(* Operations on the cache                                                 *)
(***************************************************************************)
\* new LRUCache(max, Ttl)
CacheInit(max) ==
  /\ maxSize = max
  /\ cache = <<>>
  /\ stats = [hits |-> 0, misses |-> 0]
  /\ now = 0
  /\ last = [op |-> "new", key |-> None, value |-> None, removed |-> {}]
  /\ calls = 0
  /\ recency = <<>>
  /\ lastSet = [k \in Keys |-> NoSet]
  /\ snap = <<>>

CacheGet(k) ==
  /\ calls < MaxCalls
  /\ LET g == LRUGet(cache, stats, k, now) IN
       /\ cache' = g.cache
       /\ stats' = g.stats
       /\ last' = [op |-> "get", key |-> k, value |-> g.value,
                   removed |-> KeysOf(cache) \ KeysOf(g.cache)]
       /\ recency' = IF g.value # Undefined THEN Touch(recency, k)
                     ELSE Forget(recency, KeysOf(g.cache))
  /\ calls' = calls + 1
  /\ UNCHANGED <<maxSize, snap, now, lastSet>>
  /\ UNCHANGED notCacheVars

CacheHas(k) ==
  /\ calls < MaxCalls
  /\ LET h == ServiceHas(cache, stats, k, now) IN
       /\ cache' = h.cache
       /\ stats' = h.stats
       /\ last' = [op |-> "has", key |-> k, value |-> BoolStr(h.value),
                   removed |-> KeysOf(cache) \ KeysOf(h.cache)]
       /\ recency' = IF h.value THEN Touch(recency, k)
                     ELSE Forget(recency, KeysOf(h.cache))
  /\ calls' = calls + 1
  /\ UNCHANGED <<maxSize, snap, now, lastSet>>
  /\ UNCHANGED notCacheVars

CacheSet(k, v) ==
  /\ cache' = LRUSet(cache, k, v, now, maxSize, Ttl)
  /\ last' = [op |-> "set", key |-> k, value |-> None,
              removed |-> KeysOf(cache) \ KeysOf(cache')]
  /\ recency' = Touch(Forget(recency, KeysOf(cache')), k)
  /\ lastSet' = [x \in Keys |->
                   IF x = k THEN [at |-> now, value |-> v]
                   ELSE IF x \in KeysOf(cache) \ KeysOf(cache') THEN NoSet
                   ELSE lastSet[x]]
  /\ UNCHANGED <<maxSize, snap, stats, now, calls>>
  /\ UNCHANGED notCacheVars

CacheDelete(k) ==
  /\ cache' = LRUDelete(cache, k)
  /\ last' = [op |-> "delete", key |-> k, value |-> BoolStr(MapHas(cache, k)),
              removed |-> KeysOf(cache) \ KeysOf(cache')]
  /\ recency' = Forget(recency, KeysOf(cache'))
  /\ lastSet' = [lastSet EXCEPT ![k] = NoSet]
  /\ UNCHANGED <<maxSize, snap, stats, now, calls>>
  /\ UNCHANGED notCacheVars

CacheClear ==
  /\ cache' = LRUClear(cache)
  /\ last' = [op |-> "clear", key |-> None, value |-> None,
              removed |-> KeysOf(cache)]
  /\ recency' = <<>>
  /\ lastSet' = [k \in Keys |-> NoSet]
  /\ UNCHANGED <<maxSize, snap, stats, now, calls>>
  /\ UNCHANGED notCacheVars

\* CacheService.size(): LRUCache.size()
CacheSize ==
  /\ last' = [op |-> "size", key |-> None, value |-> ToString(LRUSize(cache)),
              removed |-> {}]
  /\ UNCHANGED <<maxSize, snap, cache, stats, now, calls, recency, lastSet>>
  /\ UNCHANGED notCacheVars

\* CacheService.getStats(): LRUCache.getStats()
CacheGetStats ==
  /\ snap' = <<GetStats(stats)>>
  /\ last' = [op |-> "getStats", key |-> None, value |-> None, removed |-> {}]
  /\ UNCHANGED <<maxSize, cache, stats, now, calls, recency, lastSet>>
  /\ UNCHANGED notCacheVars

\* the caller increments the hits of the object getStats returned
MutateSnapshot ==
  /\ snap # <<>>
  /\ snap[1].hits <= MaxCalls
  /\ snap' = <<[snap[1] EXCEPT !.hits = @ + 1]>>
  /\ stats' = IF snap[1].shared THEN CountHit(stats) ELSE stats
  /\ last' = [op |-> "mutate", key |-> None, value |-> None, removed |-> {}]
  /\ UNCHANGED <<maxSize, cache, now, calls, recency, lastSet>>
  /\ UNCHANGED notCacheVars

\* time passes: Date.now() advances
Tick ==
  /\ now < MaxTime
  /\ now' = now + 1
  /\ last' = [op |-> "tick", key |-> None, value |-> None, removed |-> {}]
  /\ UNCHANGED <<maxSize, snap, cache, stats, calls, recency, lastSet>>
  /\ UNCHANGED notCacheVars

\* the calls made on the cache of capacity MaxSize
Next ==
  \/ \E k \in FewKeys : CacheGet(k)
  \/ \E k \in FewKeys : CacheHas(k)
  \/ \E kv \in FewInputs : CacheSet(kv[1], kv[2])
  \/ \E k \in FewKeys : CacheDelete(k)
  \/ CacheClear
  \/ Tick

\* the calls made on the cache of capacity LruSize
LruNext ==
  \/ \E k \in Keys : CacheGet(k)
  \/ \E k \in Keys : CacheHas(k)
  \/ \E kv \in SetInputs : CacheSet(kv[1], kv[2])
  \/ \E k \in Keys : CacheDelete(k)
  \/ CacheClear
  \/ Tick

Init == CacheInit(MaxSize) /\ TaskIdle /\ ExecIdle /\ RaceIdle /\ ViewIdle /\ SideIdle /\ ListIdle
LruInit == CacheInit(LruSize) /\ TaskIdle /\ ExecIdle /\ RaceIdle /\ ViewIdle /\ SideIdle /\ ListIdle
Spec == Init /\ [][Next]_vars

\* the keys of the runs that watch the counters
TwoKeys == {"a", "b"}
\* every call of the cache, and what the caller does with the statistics
StatsNext ==
  \/ \E k \in TwoKeys : CacheGet(k)
  \/ \E k \in TwoKeys : CacheHas(k)
  \/ \E k \in TwoKeys : CacheSet(k, "v1")
  \/ \E k \in TwoKeys : CacheDelete(k)
  \/ CacheClear
  \/ CacheSize
  \/ CacheGetStats
  \/ MutateSnapshot
  \/ Tick
StatsSpec == Init /\ [][StatsNext]_vars

\* the values MCP_CACHE_TASK_MAX_SIZE may hold in the environment
EnvMaxSizes == {"0", "-1", "2"}
\* parseInt(text, 10) on those values
ParseInt(text) ==
  CASE text = "0" -> 0
    [] text = "-1" -> 0 - 1
    [] text = "2" -> 2
\* getConfig() read from the environment, then new CacheService(config):
\* new LRUCache(config.maxSize, config.ttlMs)
ConfigInit ==
  /\ \E text \in EnvMaxSizes : CacheInit(ParseInt(text))
  /\ TaskIdle
  /\ ExecIdle
  /\ RaceIdle /\ ViewIdle /\ SideIdle /\ ListIdle
ConfigSpec == ConfigInit /\ [][Next]_vars
LruSpec == LruInit /\ [][LruNext]_vars

\* new TaskManager(storagePath, TaskCacheSize) on an empty directory
TaskInit == CacheInit(MaxSize) /\ TaskIdle /\ ExecIdle /\ RaceIdle /\ ViewIdle /\ SideIdle /\ ListIdle
TaskSpec == TaskInit /\ [][TaskNext]_vars
NotesSpec == TaskInit /\ [][NotesNext]_vars
FaultSpec == TaskInit /\ [][FaultNext]_vars
ViewerSpec == TaskInit /\ [][ViewerNext]_vars
\* the runs of the tool handler, of the dashboard page and of the watcher
ToolSpec == Init /\ [][ToolNext]_vars
DashSpec == Init /\ [][DashNext]_vars
WatchSpec == Init /\ [][WatchNext]_vars

\* the calls of a client that updates its tasks while time passes
ClockNext ==
  \/ \E id \in TaskIds : CreateTask(id, Absent, {})
  \/ \E id \in TaskIds, st \in {Absent, "in_progress"}, n \in NoteArgs :
       UpdateTask(id, st, Absent, n, {})
  \/ \E id \in TaskIds : UpdateStatus(id, "completed")
  \/ \E id \in TaskIds : AddProgressNote(id, "t1: n")
  \/ \E id \in TaskIds : DeleteTask(id)
  \/ Tick
ClockSpec == TaskInit /\ [][ClockNext]_vars
LifecycleSpec == TaskInit /\ [][LifecycleNext]_vars

\* new TaskManager(storagePath, TaskCacheSize) on a directory that holds
\* tasks, and the listTasks calls made on it
ListInit ==
  /\ CacheInit(MaxSize)
  /\ ExecIdle /\ RaceIdle /\ ViewIdle /\ SideIdle /\ ListIdle
  /\ disk \in Directories
  /\ tcache = <<>>
  /\ tstats = [hits |-> 0, misses |-> 0]
  /\ tlast = TaskCall("new", Absent, Absent, {}, Null)
  /\ ioError = Ok
  /\ tio = IO(<<>>, <<>>)
ListNext == \E a \in ListArgs : ListTasks(a.status, a.priority, a.tags)
ListSpec == ListInit /\ [][ListNext]_vars

\* two updateTask calls made at once on the stored task RaceId, which is
\* cached or not
RaceInit ==
  /\ CacheInit(MaxSize)
  /\ ExecIdle
  /\ disk = WriteFile([id \in {} |-> Null], RaceId, StoredTask)
  /\ tcache \in {<<>>, <<[key |-> RaceId, value |-> StoredTask]>>}
  /\ tstats = [hits |-> 0, misses |-> 0]
  /\ tlast = TaskCall("new", Absent, Absent, {}, Null)
  /\ ioError = Ok
  /\ tio = IO(<<>>, <<>>)
  /\ ViewIdle /\ SideIdle /\ ListIdle
  /\ procs \in [Callers -> {NewCall(st, n) :
                              st \in {"in_progress", "completed"},
                              n \in NoteArgs}]
RaceSpec == RaceInit /\ [][RaceNext]_vars

\* loads of the stored task RaceId, cached or not, made while it is saved
\* or deleted
OverlapInit ==
  /\ CacheInit(MaxSize)
  /\ ExecIdle
  /\ disk = WriteFile([id \in {} |-> Null], RaceId, StoredTask)
  /\ tcache \in {<<>>, <<[key |-> RaceId, value |-> StoredTask]>>}
  /\ tstats = [hits |-> 0, misses |-> 0]
  /\ tlast = TaskCall("new", Absent, Absent, {}, Null)
  /\ ioError = Ok
  /\ tio = IO(<<>>, <<>>)
  /\ ViewIdle /\ SideIdle /\ ListIdle
  /\ \E w \in {NewWrite("save", <<v>>) : v \in SavedTasks}
              \cup {NewWrite("delete", <<>>)} :
       procs = [p \in Loaders \cup {Writer} |->
                  IF p = Writer THEN w ELSE NewLoad]
OverlapSpec == OverlapInit /\ [][OverlapNext]_vars

\* the dependency views applied to every snapshot of three tasks
ExecInit ==
  /\ CacheInit(MaxSize)
  /\ TaskIdle
  /\ RaceIdle /\ ViewIdle /\ SideIdle /\ ListIdle
  /\ allTasks \in Snapshots
  /\ executable = <<>>
  /\ tasksInOrder = <<>>
  /\ epc = "start"
ExecNext == RunGetExecutableTasks \/ GetTasksInOrderStep
ExecSpec == ExecInit /\ [][ExecNext]_vars

(***************************************************************************)
(* Properties of the cache                                                 *)
(***************************************************************************)
\* C1: size() never exceeds maxSize, whatever calls are made on the cache.
CacheCapacity == LRUSize(cache) <= maxSize

\* a set of a new key has just evicted an entry of a full cache
CacheCapacityWitness ==
  /\ last.op = "set"
  /\ last.removed # {}
  /\ last.key \notin last.removed
  /\ LRUSize(cache) = maxSize

\* C2: a set of a key without entry on a full cache evicts exactly one key,
\* the one whose most recent touch (get hit or set) is the oldest.
EvictsLeastRecentlyUsed ==
  [][(/\ last'.op = "set"
      /\ ~MapHas(cache, last'.key)
      /\ LRUSize(cache) = maxSize)
     => last'.removed = {Head(recency)}]_vars

\* C3: a set of a key that has an entry evicts nothing: the keys and the
\* size of the cache are what they were.
SetExistingKeepsOthers ==
  [][(last'.op = "set" /\ MapHas(cache, last'.key))
     => (KeysOf(cache') = KeysOf(cache) /\ LRUSize(cache') = LRUSize(cache))]_vars

\* C4: a get of a key set at t0 (not set again, deleted or evicted since)
\* returns the value set while now - t0 <= ttl; later it returns undefined,
\* counts exactly one miss and leaves no entry for the key.
GetHonoursTtl ==
  [][\A k \in Keys :
       (last'.op = "get" /\ last'.key = k /\ lastSet[k] # NoSet)
       => IF now - lastSet[k].at <= Ttl
          THEN last'.value = lastSet[k].value
          ELSE /\ last'.value = Undefined
               /\ stats'.misses = stats.misses + 1
               /\ stats'.hits = stats.hits
               /\ ~MapHas(cache', k)]_vars

\* a get has just found its key expired and removed it
GetHonoursTtlWitness ==
  /\ last.op = "get"
  /\ lastSet[last.key] # NoSet
  /\ now - lastSet[last.key].at > Ttl
  /\ last.value = Undefined
  /\ last.removed = {last.key}

\* C5: hits + misses is the number of get and has calls made so far.
StatsConservation == stats.hits + stats.misses = calls

\* gets and has calls were made, with a hit and a miss among them
StatsConservationWitness ==
  /\ calls >= 2
  /\ stats.hits >= 1
  /\ stats.misses >= 1

\* C6: has(k) returns true exactly when get(k) would return a value, and
\* leaves the map (entries and order) and the counters as get(k) would.
HasAgreesWithGet ==
  [][last'.op = "has"
     => LET g == LRUGet(cache, stats, last'.key, now)
        IN  /\ last'.value = BoolStr(g.value # Undefined)
            /\ cache' = g.cache
            /\ stats' = g.stats]_vars

\* a has has just found its key expired and removed it
HasAgreesWithGetWitness ==
  /\ last.op = "has"
  /\ last.value = "false"
  /\ last.removed = {last.key}

\* C22: set, delete, clear, size, getStats and a change made to the object
\* getStats returned leave hits and misses as they were, no call lowers
\* either counter, and clear leaves no entry.
StatsFrame ==
  [][/\ last'.op \in {"set", "delete", "clear", "size", "getStats", "mutate"}
        => stats' = stats
     /\ stats'.hits >= stats.hits
     /\ stats'.misses >= stats.misses
     /\ last'.op = "clear" => cache' = <<>>]_vars

\* the caller has changed the object getStats returned, after hits and
\* misses were counted
StatsFrameWitness ==
  /\ last.op = "mutate"
  /\ stats.hits >= 1
  /\ stats.misses >= 1
  /\ snap[1].hits > stats.hits

\* C28: the passage of time leaves size() as it was, and an entry whose
\* expiry has passed leaves the map only by a get or has of its own key, a
\* delete of its key, a clear, or the eviction a set on a full cache makes.
LazyExpiry ==
  [][/\ last'.op = "tick" => LRUSize(cache') = LRUSize(cache)
     /\ \A k \in KeysOf(cache) \ KeysOf(cache') :
          Expired(MapGet(cache, k), now)
          => \/ last'.op \in {"get", "has", "delete"} /\ last'.key = k
             \/ last'.op = "clear"
             \/ /\ last'.op = "set"
                /\ last'.key # k
                /\ IsFull(cache, maxSize)]_vars

\* a get of another key has just left an expired entry in the map, where
\* size() counts it
LazyExpiryWitness ==
  /\ last.op = "get"
  /\ last.value # Undefined
  /\ LRUSize(cache) = 2
  /\ \E k \in KeysOf(cache) \ {last.key} : Expired(MapGet(cache, k), now)

\* C29: a get or has that finds its key leaves the expiry of the entry as
\* it was, a set puts the expiry of its key at the time of the call plus
\* ttl whether or not the key had an entry, and so every entry expires ttl
\* after the latest set of its key, however often it was read.
HitKeepsExpiry ==
  [][/\ (last'.op \in {"get", "has"} /\ MapHas(cache', last'.key))
        => MapGet(cache', last'.key).expiry = MapGet(cache, last'.key).expiry
     /\ last'.op = "set" => MapGet(cache', last'.key).expiry = now + Ttl
     /\ \A k \in KeysOf(cache') :
          /\ lastSet'[k] # NoSet
          /\ MapGet(cache', k).expiry = lastSet'[k].at + Ttl]_vars

\* the second hit of the run has just returned the value of a key at the
\* last moment of its life, with the expiry its set gave it
HitKeepsExpiryWitness ==
  /\ last.op = "get"
  /\ last.value # Undefined
  /\ stats.hits = 2
  /\ KeysOf(cache) = {last.key}
  /\ lastSet[last.key].at = 0
  /\ now = Ttl
  /\ MapGet(cache, last.key).expiry = Ttl

\* C21: no cache whose maxSize is zero or negative exists and accepts a
\* set call.
BadMaxSizeIsRejected == maxSize <= 0 => last.op # "set"

(***************************************************************************)
(* Properties of the task lifecycle                                        *)
(***************************************************************************)
\* the step is an updateTask or updateStatus call on the stored task id
UpdatesStored(id) ==
  /\ ExistsFile(disk, id)
  /\ tlast'.op \in {"updateTask", "updateStatus"}
  /\ tlast'.id = id

\* C7: once the stored status is completed or cancelled no update changes
\* it, and an update that requests another status fails.
TerminalStatusIsFinal ==
  [][\A id \in TaskIds :
       (UpdatesStored(id) /\ disk[id].status \in {"completed", "cancelled"})
       => /\ ExistsFile(disk', id)
          /\ disk'[id].status = disk[id].status
          /\ tlast'.status \notin {Absent, disk[id].status}
               => tlast'.result = "error"]_vars

\* the status changes the lifecycle permits
Permitted ==
  {<<"todo", "in_progress">>, <<"todo", "cancelled">>,
   <<"in_progress", "completed">>, <<"in_progress", "cancelled">>}

\* C8: an update that requests a status other than the stored one, the pair
\* not being a permitted transition, is rejected and the status stays.
OnlyPermittedTransitions ==
  [][\A id \in TaskIds :
       (/\ UpdatesStored(id)
        /\ tlast'.status \in Statuses
        /\ tlast'.status # disk[id].status
        /\ <<disk[id].status, tlast'.status>> \notin Permitted)
       => /\ tlast'.result = "error"
          /\ ExistsFile(disk', id)
          /\ disk'[id].status = disk[id].status]_vars

\* the depends_on edges of the stored tasks, those of task id replaced by deps
EdgesWith(d, id, deps) ==
  UNION {{<<x, y>> : y \in DependsOn(d[x])} : x \in DOMAIN d \ {id}}
    \cup {<<id, y>> : y \in deps}

\* the ids reached from the frontier along the edges
RECURSIVE ReachFrom(_, _, _)
ReachFrom(E, seen, frontier) ==
  IF frontier = {} THEN seen
  ELSE LET nxt == {e[2] : e \in {e \in E : e[1] \in frontier}} \ seen
       IN  ReachFrom(E, seen \cup nxt, nxt)

\* task id with depends_on = deps lies on a cycle of the stored relation
ClosesCycle(d, id, deps) == id \in ReachFrom(EdgesWith(d, id, deps), {}, {id})

\* C9: a create, or an update of a stored task, whose depends_on would
\* close a cycle of the stored depends_on relation is rejected with an error
\* and writes nothing, so that the stored relation stays acyclic.
CycleIsRejected ==
  [][(/\ \/ tlast'.op = "createTask"
         \/ tlast'.op = "updateTask" /\ ExistsFile(disk, tlast'.id)
      /\ ClosesCycle(disk, tlast'.id, tlast'.depends_on))
     => (tlast'.result = "error" /\ disk' = disk)]_vars

\* C24: no stored task has its own id in depends_on, and an update of a
\* stored task whose depends_on holds the id of that task is rejected with
\* an error and writes nothing.
SelfDependencyIsRejected ==
  [][/\ \A id \in DOMAIN disk' : id \notin DependsOn(disk'[id])
     /\ (/\ tlast'.op = "updateTask"
         /\ ExistsFile(disk, tlast'.id)
         /\ tlast'.id \in tlast'.depends_on)
        => (tlast'.result = "error" /\ disk' = disk)]_vars

CreatedTaskIsTodo ==
  [][(tlast'.op = "createTask" /\ tlast'.result = "ok")
     => /\ Len(tio'.returned) = 1
        /\ tio'.returned[1].status = "todo"
        /\ tio'.returned[1].progress_notes = <<>>
        /\ LET l == Load(tcache', tstats', disk', tlast'.id, ioError') IN
           l.found /\ l.task = tio'.returned[1]]_vars
CreatedTaskIsTodoWitness ==
  /\ tlast.op = "createTask"
  /\ tlast.result = "ok"
  /\ tlast.id = "2"
  /\ tlast.depends_on = {"1"}
  /\ tio.returned = <<[id |-> "2", status |-> "todo", priority |-> "high",
                       created_at |-> now, updated_at |-> now,
                       tags |-> {}, progress_notes |-> <<>>]>>
  /\ ExistsFile(disk, "1")
  /\ disk["1"].status = "completed"

\* C27: a request to the web-viewer for a stored task, or for the list of
\* tasks, answers with the status and priority the file of each task holds
\* when the request is made.
ViewerShowsPersisted ==
  [][/\ \A id \in TaskIds :
          (ViewTask(id) /\ ExistsFile(disk, id))
          => viewer'.task = <<disk[id]>>
     /\ ViewTasks
        => viewer'.tasks = {[id |-> id, status |-> disk[id].status,
                             priority |-> disk[id].priority] :
                              id \in DOMAIN disk}]_vars

\* C30: a load of a stored task made while the file system works returns
\* the document last written to its file, also after an update of the task
\* whose write failed.
FailedWriteIsInvisible ==
  [][\A id \in TaskIds :
       (GetTaskStatus(id) /\ ExistsFile(disk, id) /\ ioError = Ok)
       => tio'.returned = <<disk[id]>>]_vars

\* C33: a successful updateTask, addProgressNote or updateStatus leaves the
\* task with updated_at at the time of the call, which is not before the
\* updated_at it had, and no step changes the created_at or the id of a
\* stored task (a step that leaves the clock alone is a call).
UpdatedAtFollowsClock ==
  [][\A id \in DOMAIN disk \cap DOMAIN disk' :
       /\ disk'[id].created_at = disk[id].created_at
       /\ disk'[id].id = disk[id].id
       /\ (/\ now' = now
           /\ tlast'.op \in {"updateTask", "addProgressNote", "updateStatus"}
           /\ tlast'.id = id
           /\ tlast'.result \in {"ok", "true"})
          => /\ disk'[id].updated_at = now
             /\ disk'[id].updated_at >= disk[id].updated_at]_vars

\* an updateStatus has just moved updated_at of a task past its created_at,
\* after an earlier update that added a note
UpdatedAtFollowsClockWitness ==
  /\ tlast.op = "updateStatus"
  /\ tlast.result = "true"
  /\ ExistsFile(disk, tlast.id)
  /\ disk[tlast.id].created_at = 1
  /\ disk[tlast.id].updated_at = 2
  /\ now = 2
  /\ disk[tlast.id].progress_notes # <<>>

\* C13: an updateTask rejected for an invalid status or priority mutates
\* nothing: the documents are what they were, and a read of the id returns
\* the task it would have returned before the call.
RejectedUpdateMutatesNothing ==
  [][(tlast'.op = "updateTask" /\ tlast'.result = "error")
     => /\ disk' = disk
        /\ LET before == Load(tcache, tstats, disk, tlast'.id, Ok)
               after == Load(tcache', tstats', disk', tlast'.id, Ok)
           IN  /\ after.found = before.found
               /\ before.found => after.task = before.task]_vars

\* a is a prefix of b
IsPrefix(a, b) == Len(a) <= Len(b) /\ SubSeq(b, 1, Len(a)) = a

\* C14: after an updateTask, addProgressNote or updateStatus call on a
\* stored task, the progress_notes stored before the call are a prefix of
\* the progress_notes stored after it.
NotesAppendOnly ==
  [][\A id \in TaskIds :
       (/\ ExistsFile(disk, id)
        /\ tlast'.op \in {"updateTask", "addProgressNote", "updateStatus"}
        /\ tlast'.id = id)
       => /\ ExistsFile(disk', id)
          /\ IsPrefix(disk[id].progress_notes, disk'[id].progress_notes)]_vars

\* a second note, of another text, was added to a task after its first
NotesAppendOnlyWitness ==
  /\ tlast.op \in {"updateTask", "addProgressNote"}
  /\ tlast.result \in {"ok", "true"}
  /\ ExistsFile(disk, tlast.id)
  /\ disk[tlast.id].progress_notes = <<"t1: n", "t2: n">>

\* C23: an updateTask that names the status the task has, with a progress
\* note, succeeds, leaves the status as it was and appends the note, and
\* nothing else, to progress_notes.
SameStatusWithNote ==
  [][\A id \in TaskIds, n \in TwoNoteArgs \ {Absent} :
       (/\ ExistsFile(disk, id)
        /\ Len(disk[id].progress_notes) < MaxNotes
        /\ UpdateTask(id, disk[id].status, Absent, n, {}))
       => /\ tlast'.result = "ok"
          /\ disk'[id].status = disk[id].status
          /\ disk'[id].progress_notes = Append(disk[id].progress_notes, n)
          /\ tio'.returned = <<disk'[id]>>]_vars

\* a completed task that had a note was updated with the status completed
\* and a second note
SameStatusWithNoteWitness ==
  /\ tlast.op = "updateTask"
  /\ tlast.status = "completed"
  /\ tlast.was = "completed"
  /\ tlast.result = "ok"
  /\ disk[tlast.id].status = "completed"
  /\ disk[tlast.id].progress_notes = <<"t1: n", "t2: n">>

\* C15: without I/O errors, load(id) returns the value of the latest save
\* of id, which is the document of id, until the next save or delete of id;
\* it returns null only when id has no document.
LoadReturnsSaved ==
  \A id \in TaskIds :
    LET l == Load(tcache, tstats, disk, id, Ok) IN
      /\ l.found = ExistsFile(disk, id)
      /\ l.found => l.task = disk[id]

\* C16: load returns the cached task without reading the file on a hit; on
\* a miss it reads the file, and caches the document it found so that the
\* next load of the id is a hit; a miss without document caches nothing.
LoadConsultsCacheFirst ==
  [][tlast'.op = "getTaskStatus"
     => LET id == tlast'.id IN
        IF MapHas(tcache, id)
        THEN /\ tio' = IO(<<>>, <<MapGet(tcache, id).value>>)
             /\ tstats'.hits = tstats.hits + 1
        ELSE IF ExistsFile(disk, id)
        THEN /\ tio' = IO(<<"readFile">>, <<disk[id]>>)
             /\ MapHas(tcache', id)
             /\ MapGet(tcache', id).value = disk[id]
             /\ Load(tcache', tstats', disk', id, Ok).calls = <<>>
        ELSE /\ tio' = IO(<<"readFile">>, <<>>)
             /\ tcache' = tcache]_vars

\* a load has just missed the cache, read the document and cached it
LoadConsultsCacheFirstWitness ==
  /\ tlast.op = "getTaskStatus"
  /\ tio.calls = <<"readFile">>
  /\ tio.returned # <<>>
  /\ MapHas(tcache, tlast.id)

\* C17: after a delete that returned true the id has no document and no
\* cache entry, and as long as an id has no document load returns null.
DeleteRemovesBoth ==
  [][/\ (tlast'.op = "deleteTask" /\ tlast'.result = "true")
        => /\ ~ExistsFile(disk', tlast'.id)
           /\ ~MapHas(tcache', tlast'.id)
     /\ \A id \in TaskIds :
          ~ExistsFile(disk', id)
          => ~Load(tcache', tstats', disk', id, Ok).found]_vars

\* a delete has just returned true while another task stays cached
DeleteRemovesBothWitness ==
  /\ tlast.op = "deleteTask"
  /\ tlast.result = "true"
  /\ tio.calls = <<"unlink">>
  /\ ~ExistsFile(disk, tlast.id)
  /\ DOMAIN disk # {}

\* C18: once two updateTask calls made at once on one id have both
\* finished, the cache entry of the id equals the document of the id.
CacheAgreesAfterRace ==
  (procs # <<>> /\ \A p \in Callers : procs[p].pc = "done")
  => /\ MapHas(tcache, RaceId)
     /\ MapGet(tcache, RaceId).value = disk[RaceId]

\* every call of the overlap has finished
OverlapDone ==
  /\ Writer \in DOMAIN procs
  /\ \A p \in DOMAIN procs : procs[p].pc = "done"

\* C31: once loads of an id and a save(id, v) made at once have all
\* finished, the cache entry of the id is the document v the file holds.
LoadKeepsNewerEntry ==
  (OverlapDone /\ procs[Writer].op = "save")
  => /\ MapHas(tcache, RaceId)
     /\ MapGet(tcache, RaceId).value = procs[Writer].held[1]
     /\ disk[RaceId] = procs[Writer].held[1]

\* C32: once loads of an id and a delete(id) that returned true made at
\* once have all finished, the cache has no entry for the id, and a load
\* that started after the delete returned has returned null.
LoadLeavesDeletedOut ==
  /\ (OverlapDone /\ procs[Writer].op = "delete")
     => ~MapHas(tcache, RaceId)
  /\ \A p \in DOMAIN procs :
       (/\ Writer \in DOMAIN procs
        /\ procs[Writer].op = "delete"
        /\ procs[p].op = "load"
        /\ procs[p].late
        /\ procs[p].pc = "done")
       => procs[p].result = Null

\* C34: every tool call handled has a text result as response: the text
\* 'Error occurred while executing tool' with the tool name and the message
\* when the manager call threw, 'Unknown tool' for a name the server does
\* not know, 'Unknown operation' for an operation the tool does not have.
EveryToolCallIsAnswered ==
  tool.name # Absent
  => /\ tool.response.kind = "text"
     /\ tool.name \notin ToolNames
        => tool.response.text = "Unknown tool: " \o tool.name
     /\ (/\ tool.name \in {"memory_tool", "task_tool"}
         /\ tool.hasArgs
         /\ tool.operation \notin Operations(tool.name))
        => tool.response.text = "Unknown operation: " \o tool.operation
     /\ (/\ tool.name \in ToolNames
         /\ tool.outcome = Throws
         /\ tool.name \in {"memory_tool", "task_tool"}
            => (tool.hasArgs /\ tool.operation \in Operations(tool.name)))
        => tool.response.text =
             "Error occurred while executing tool " \o tool.name \o ": "
             \o SaveError(Eio)

\* the update of task_tool has just been answered after the manager threw
EveryToolCallIsAnsweredWitness ==
  /\ tool.name = "task_tool"
  /\ tool.operation = "update"
  /\ tool.outcome = Throws
  /\ tool.response =
       TextResult("Error occurred while executing tool task_tool: "
                  \o "Failed to save task: EIO")

\* C35: the dashboard page has at most one interval timer, none while the
\* socket ws refers to is OPEN, and creates a socket only when ws is null
\* or refers to a socket that is neither OPEN nor CONNECTING.
OneTimerNoneWhenOpen ==
  [][/\ Cardinality(client'.timers) <= 1
     /\ (client'.ws # 0 /\ client'.sockets[client'.ws] = "OPEN")
        => client'.timers = {}
     /\ Len(client'.sockets) > Len(client.sockets)
        => ~Connected(client)]_vars

\* C36: a scan that finds the files of the subdirectory different from
\* those of the scan before it makes a broadcast, whether or not the scan
\* before it found files.
ChangeIsBroadcast ==
  [][(/\ watcher'.scans = watcher.scans + 1
      /\ watcher.scans > 0
      /\ CurrentScan(watcher.files) # watcher.lastScan)
     => watcher'.broadcasts = watcher.broadcasts + 1]_vars

\* C19: an fs call that fails with an error other than ENOENT ends the
\* TaskManager call with that error, after that one fs call.
IoErrorReachesCaller ==
  [][(ioError = Eio /\ ioError' = Eio /\ tio'.calls # <<>>)
     => (tlast'.result = Eio /\ Len(tio'.calls) = 1)]_vars

CompletedIds(all) == {all[i].id : i \in {j \in 1..Len(all) : all[j].status = "completed"}}

\* C10: getExecutableTasks returns exactly the todo tasks whose every
\* depends_on id names a completed task of the snapshot, each once.
ExecutableExactly ==
  epc = "done" =>
    /\ \A i \in 1..Len(allTasks) :
         (allTasks[i] \in Range(executable))
         <=> (/\ allTasks[i].status = "todo"
              /\ allTasks[i].depends_on \subseteq CompletedIds(allTasks))
    /\ Range(executable) \subseteq Range(allTasks)
    /\ Cardinality(Range(executable)) = Len(executable)

\* A completed, B todo depending on A, C todo depending on B: exactly B
ExecutableExactlyWitness ==
  /\ epc = "done"
  /\ allTasks = << [id |-> "A", status |-> "completed", depends_on |-> {}],
                   [id |-> "B", status |-> "todo", depends_on |-> {"A"}],
                   [id |-> "C", status |-> "todo", depends_on |-> {"B"}] >>
  /\ executable = <<[id |-> "B", status |-> "todo", depends_on |-> {"A"}]>>

\* position of the task with the given id in a list, 0 when it has none
PositionOf(seq, id) ==
  IF id \in IdsOf(seq) THEN CHOOSE i \in 1..Len(seq) : seq[i].id = id ELSE 0

\* C11: in the list getTasksInOrder returns, every task comes after each
\* task of the input that its depends_on names.
ParentsComeFirst ==
  epc = "ordered" =>
    \A i \in 1..Len(tasksInOrder) :
      \A p \in tasksInOrder[i].depends_on \cap IdsOf(allTasks) :
        /\ PositionOf(tasksInOrder, p) > 0
        /\ PositionOf(tasksInOrder, p) < i

\* A depends on C and C on B: the order returned is B, C, A
ParentsComeFirstWitness ==
  /\ epc = "ordered"
  /\ Len(allTasks) = 3
  /\ allTasks[1].depends_on = {"C"}
  /\ allTasks[2].depends_on = {}
  /\ allTasks[3].depends_on = {"B"}
  /\ tasksInOrder = <<allTasks[2], allTasks[3], allTasks[1]>>

\* the depends_on edges between the tasks of a snapshot
SnapshotEdges(all) ==
  UNION {{<<all[i].id, d>> : d \in all[i].depends_on \cap IdsOf(all)} :
           i \in 1..Len(all)}

\* no task of the snapshot reaches itself along depends_on
Acyclic(all) ==
  \A i \in 1..Len(all) :
    all[i].id \notin ReachFrom(SnapshotEdges(all), {}, {all[i].id})

\* C12: on an acyclic snapshot the loop of getTasksInOrder emits a task of
\* the input that it has not emitted before at each iteration, so that it
\* ends after at most one iteration per task, and the list it returns holds
\* every task of the input exactly once.
OrderIsPermutation ==
  Acyclic(allTasks) =>
    /\ epc \in {"ordering", "ordered"} =>
         /\ Range(tasksInOrder) \subseteq Range(allTasks)
         /\ Cardinality(Range(tasksInOrder)) = Len(tasksInOrder)
    /\ epc = "ordered" =>
         /\ Range(tasksInOrder) = Range(allTasks)
         /\ Len(tasksInOrder) = Len(allTasks)

\* an acyclic snapshot with an id that names no task: B depends on Z and
\* on C, and the three tasks are returned, C before B
OrderIsPermutationWitness ==
  /\ epc = "ordered"
  /\ Len(allTasks) = 3
  /\ allTasks[1].depends_on = {}
  /\ allTasks[2].depends_on = {MissingId, "C"}
  /\ allTasks[3].depends_on = {}
  /\ tasksInOrder = <<allTasks[1], allTasks[3], allTasks[2]>>

\* a stored task that the filters given ask for
Wanted(task, status, priority, tags) ==
  /\ status # Absent => task.status = status
  /\ priority # Absent => task.priority = priority
  /\ tags # {} => task.tags \cap tags # {}

\* C37: listTasks returns exactly the stored tasks that satisfy every filter
\* given (status equal, priority equal, at least one tag in common), each
\* once, ordered by updated_at from the newest to the oldest; a status or a
\* priority filter outside the allowed values is rejected with an Error and
\* no list is returned
ListTasksFiltersAndSorts ==
  [][tlast'.op = "listTasks"
     => LET l == listing'
            wanted == {id \in DOMAIN disk' :
                         Wanted(disk'[id], l.status, l.priority, l.tags)}
        IN  IF l.status \in Statuses \cup {Absent}
               /\ l.priority \in Priorities \cup {Absent}
            THEN /\ l.result = "ok"
                 /\ Len(l.tasks) = Cardinality(wanted)
                 /\ {l.tasks[i] : i \in 1..Len(l.tasks)}
                      = {disk'[id] : id \in wanted}
                 /\ \A i, j \in 1..Len(l.tasks) :
                      i < j => l.tasks[i].updated_at >= l.tasks[j].updated_at
            ELSE /\ l.result = "error"
                 /\ l.tasks = <<>>
                 /\ tlast'.result = "error"]_vars
ListTasksFiltersAndSortsWitness ==
  /\ listing.result = "ok"
  /\ listing.status = "in_progress"
  /\ listing.tags = {"b", "c"}
  /\ Cardinality(DOMAIN disk) = 3
  /\ Len(listing.tasks) = 2
  /\ listing.tasks[1].id = "3"
  /\ listing.tasks[2].id = "1"
  /\ listing.tasks[1].updated_at > listing.tasks[2].updated_at
  /\ disk["2"].status = "in_progress"

====
